---- MODULE Spec2Model ----
(***************************************************************************)
(* A model of apa102-spi: the three frame writers (Apa102 of lib.rs,       *)
(* Apa102Async of asynch.rs, Apa102 of writer.rs) driving an SPI bus whose  *)
(* write may fail, and the pseudo-13-bit pixel encoder of pseudo13.rs with  *)
(* its helpers of bitshift.rs and math.rs.                                  *)
(***************************************************************************)
EXTENDS Integers, Sequences, FiniteSets, TLC

VARIABLES
    writer,            \* which writer type was constructed
    end_frame_length,  \* Apa102 / Apa102Async field (0 for the writer.rs type, which has none)
    invert_end_frame,  \* field of all three writers
    pixel_order,       \* field of all three writers
    pixels,            \* the items of the iterator handed to the current write call
    iterator,          \* the items the for loop has not consumed yet
    num_end_frames,    \* writer.rs local, set after the start frame
    i,                 \* the end-frame loop counter
    pc,                \* position inside write
    log,               \* the transport calls of the current write, each with its outcome
    result,            \* what the current write returned
    calls,             \* the number of write calls started on this writer
    encIn,             \* the arguments of the pixel-encoder call under test
    encOut,            \* its return value
    call               \* the helper call under test (bitshift.rs, math.rs), step by step

vars == <<writer, end_frame_length, invert_end_frame, pixel_order, pixels, iterator,
          num_end_frames, i, pc, log, result, calls, encIn, encOut, call>>

config == <<writer, end_frame_length, invert_end_frame, pixel_order>>

(***************************************************************************)
(* Bounds of the model.                                                    *)
(***************************************************************************)
MaxPixels == 2
MaxEndFrameLength == 2
MaxStrip == 33
MaxCalls == 2

(***************************************************************************)
(* u8 arithmetic.                                                          *)
(***************************************************************************)
U8Max == 255

RECURSIVE BitOr(_, _)
BitOr(a, b) ==
    IF a = 0 THEN b
    ELSE IF b = 0 THEN a
    ELSE (IF a % 2 = 1 \/ b % 2 = 1 THEN 1 ELSE 0) + 2 * BitOr(a \div 2, b \div 2)

RECURSIVE BitAnd(_, _)
BitAnd(a, b) ==
    IF a = 0 \/ b = 0 THEN 0
    ELSE (IF a % 2 = 1 /\ b % 2 = 1 THEN 1 ELSE 0) + 2 * BitAnd(a \div 2, b \div 2)

(***************************************************************************)
(* The writers.                                                            *)
(***************************************************************************)
Writers == {"Apa102", "Apa102Async", "writer::Apa102"}

FixedLengthWriters == {"Apa102", "Apa102Async"}

PixelOrder == {"RGB", "RBG", "GRB", "GBR", "BRG", "BGR"}

Apa102Pixel(r, g, b, br) == [red |-> r, green |-> g, blue |-> b, brightness |-> br]

\* The outcome of one SpiBus::write: Ok(()) or Err(e), e opaque.
TransportErrors == {"ErrA", "ErrB"}

TransportResults == {"Ok"} \cup TransportErrors

\* The start frame (and writer.rs's reset frame): &[0x00, 0x00, 0x00, 0x00].
StartFrameShort == <<0, 0, 0>>

StartFrame == <<0, 0, 0, 0>>

\* The first byte of a pixel frame: 0b11100000 | brightness.
BrightnessByte(brightness) == BitOr(224, brightness)

\* The match on self.pixel_order: the four bytes handed to one spi.write.
PixelFrameShifted(order, item) ==
    CASE order = "RGB" -> <<BrightnessByte(item.brightness), item.green, item.blue, item.red>>
      [] order = "RBG" -> <<BrightnessByte(item.brightness), item.blue, item.green, item.red>>
      [] order = "GRB" -> <<BrightnessByte(item.brightness), item.red, item.blue, item.green>>
      [] order = "GBR" -> <<BrightnessByte(item.brightness), item.blue, item.red, item.green>>
      [] order = "BRG" -> <<BrightnessByte(item.brightness), item.red, item.green, item.blue>>
      [] order = "BGR" -> <<BrightnessByte(item.brightness), item.green, item.red, item.blue>>

PixelFrame(order, item) ==
    CASE order = "RGB" -> <<BrightnessByte(item.brightness), item.red, item.green, item.blue>>
      [] order = "RBG" -> <<BrightnessByte(item.brightness), item.red, item.blue, item.green>>
      [] order = "GRB" -> <<BrightnessByte(item.brightness), item.green, item.red, item.blue>>
      [] order = "GBR" -> <<BrightnessByte(item.brightness), item.green, item.blue, item.red>>
      [] order = "BRG" -> <<BrightnessByte(item.brightness), item.blue, item.red, item.green>>
      [] order = "BGR" -> <<BrightnessByte(item.brightness), item.blue, item.green, item.red>>

\* The one byte of an end-frame write: match self.invert_end_frame.
EndFrameByteSwapped(invert) == IF invert THEN 255 ELSE 0

EndFrameByte(invert) == IF invert THEN 0 ELSE 255

\* usize::div_ceil
DivCeilFloor(a, b) == a \div b

DivCeil(a, b) == IF a % b > 0 THEN (a \div b) + 1 ELSE a \div b

\* The ? operator on the outcome r of a transport write: where write goes next,
\* and what it has returned by then.
TryPcIgnore(r, next) == next

TryPc(r, next) == IF r = "Ok" THEN next ELSE "done"

TryResult(r) == IF r = "Ok" THEN "none" ELSE r

\* One call of self.spi.write(bytes) with outcome r, as the log records it.
SpiWriteBytewise(bytes, r) ==
    log \o [k \in 1..Len(bytes) |-> [bytes |-> <<bytes[k]>>, res |-> r]]

SpiWrite(bytes, r) == Append(log, [bytes |-> bytes, res |-> r])

\* The number of iterations of the end-frame loop.
EndFrameCount == IF writer = "writer::Apa102" THEN num_end_frames ELSE end_frame_length

\* The for loop over the iterator has run out of items.
AfterPixelsEarly == pc = "pixels"

AfterPixels == pc = "pixels" /\ iterator = <<>>

\* write is at the head of the end-frame loop.
InEndLoop == pc = "end" \/ (AfterPixels /\ writer # "writer::Apa102")

(***************************************************************************)
(* math.rs                                                                 *)
(***************************************************************************)
U16Max == 65535

\* i as u32 * (1 + scale as u32): at most 0xFFFF * 0x100, so the u32 never wraps.
scale16by8_product(value, scale) == value * (1 + scale)

scale16by8_no_zero_return(value, scale) ==
    (scale16by8_product(value, scale) \div 256) % (U16Max + 1)

scale16by8_no_plus_one(value, scale) ==
    IF scale = 0 THEN 0
    ELSE ((value * scale) \div 256) % (U16Max + 1)

\* ((i as u32 * (1 + scale as u32)) >> 8) as u16, 0 for scale 0
scale16by8(value, scale) ==
    IF scale = 0 THEN 0
    ELSE (scale16by8_product(value, scale) \div 256) % (U16Max + 1)

\* ((x + 128) >> 8) as u8, 0xff from 0xff00 on
map16_to_8(x) ==
    IF x >= 65280 THEN 255
    ELSE ((x + 128) \div 256) % (U8Max + 1)

(***************************************************************************)
(* bitshift.rs                                                             *)
(***************************************************************************)
Pow2(n) == 2 ^ n

\* u8 << n and u16 << n: the bits shifted out are dropped.
Shl8(x, n) == (x * Pow2(n)) % (U8Max + 1)

Shl16(x, n) == (x * Pow2(n)) % (U16Max + 1)

\* brightness_bitshifter8: the loop goes round once more (its condition holds and
\* the overflow break is not taken).
bitshifter8_continues_unchecked(src, dst, shifts, max_shifts) ==
    shifts < max_shifts /\ src > 1

bitshifter8_continues(src, dst, shifts, max_shifts) ==
    shifts < max_shifts /\ src > 1 /\ ~(BitAnd(dst, 128) > 0)

\* The while loop of brightness_bitshifter8, from its head.
RECURSIVE bitshifter8_loop(_, _, _, _)
bitshifter8_loop(src, dst, shifts, max_shifts) ==
    IF bitshifter8_continues(src, dst, shifts, max_shifts)
    THEN bitshifter8_loop(src \div 2, Shl8(dst, 1), shifts + 1, max_shifts)
    ELSE [src |-> src, dst |-> dst, shifts |-> shifts]

\* brightness_bitshifter8: the two values as left and the count returned.
brightness_bitshifter8(brightness_src, brightness_dst, max_shifts) ==
    IF brightness_dst = 0 \/ brightness_src = 0
    THEN [src |-> brightness_src, dst |-> brightness_dst, shifts |-> 0]
    ELSE bitshifter8_loop(brightness_src, brightness_dst, 0, max_shifts)

\* The loop building overflow_mask: the top `steps` bits of a u16.
overflow_mask_top_bit(mask, k, steps) == mask

RECURSIVE overflow_mask_loop(_, _, _)
overflow_mask_loop(mask, k, steps) ==
    IF k < steps
    THEN overflow_mask_loop(BitOr(mask \div 2, 32768), k + 1, steps)
    ELSE mask

\* brightness_bitshifter16: the loop goes round once more (its condition holds and
\* neither the underflow nor the overflow break is taken).
bitshifter16_continues(src, dst, shifts, max_shifts, overflow_mask) ==
    shifts < max_shifts /\ ~(BitAnd(src, 1) > 0) /\ ~(BitAnd(dst, overflow_mask) > 0)

\* The while loop of brightness_bitshifter16, from its head.
RECURSIVE bitshifter16_loop(_, _, _, _, _, _)
bitshifter16_loop(src, dst, shifts, max_shifts, steps, overflow_mask) ==
    IF bitshifter16_continues(src, dst, shifts, max_shifts, overflow_mask)
    THEN bitshifter16_loop(src \div 2, Shl16(dst, steps), shifts + 1,
                           max_shifts, steps, overflow_mask)
    ELSE [src |-> src, dst |-> dst, shifts |-> shifts]

\* brightness_bitshifter16: the two values as left and the count returned.
brightness_bitshifter16(brightness_src, brightness_dst, max_shifts, steps) ==
    IF brightness_dst = 0 \/ brightness_src = 0
    THEN [src |-> brightness_src, dst |-> brightness_dst, shifts |-> 0]
    ELSE bitshifter16_loop(brightness_src, brightness_dst, 0, max_shifts, steps,
                           overflow_mask_loop(32768, 1, steps))

(***************************************************************************)
(* pseudo13.rs                                                             *)
(***************************************************************************)
RGB16(r, g, b) == [r |-> r, g |-> g, b |-> b]

RGB8(r, g, b) == [r |-> r, g |-> g, b |-> b]

Max(a, b) == IF b >= a THEN b ELSE a

\* The early return for a black color.
BlackPixelUnclamped(brightness) == Apa102Pixel(0, 0, 0, brightness)

BlackPixel(brightness) ==
    Apa102Pixel(0, 0, 0, IF brightness <= 31 THEN brightness ELSE 31)

\* Steps 1 and 2: v5 = 0b00010000, then brightness_bitshifter8(&mut v5, &mut
\* brightness, 4): v5 is the source, brightness the destination.
five_bit_step2_swapped(brightness) ==
    LET s == brightness_bitshifter8(brightness, 16, 4)
    IN  [v5 |-> s.dst, brightness |-> s.src, shifts |-> s.shifts]

five_bit_step2(brightness) ==
    LET s == brightness_bitshifter8(16, brightness, 4)
    IN  [v5 |-> s.src, brightness |-> s.dst, shifts |-> s.shifts]

\* Step 3, the call: brightness_bitshifter16(&mut v5, &mut max_component, 4, 2).
five_bit_step3(in_color, brightness) ==
    LET max_component == Max(Max(in_color.r, in_color.g), in_color.b)
        s == brightness_bitshifter16(five_bit_step2(brightness).v5, max_component, 4, 2)
    IN  [v5 |-> s.src, max_component |-> s.dst, shifts |-> s.shifts]

\* Step 3, the channels: in_color.r <<= shifts, and so for g and b.
five_bit_shifted_by_steps(in_color, brightness) ==
    LET shifts == five_bit_step3(in_color, brightness).shifts
    IN  RGB16(Shl16(in_color.r, 2 * shifts), Shl16(in_color.g, 2 * shifts),
              Shl16(in_color.b, 2 * shifts))

five_bit_shifted(in_color, brightness) ==
    LET shifts == five_bit_step3(in_color, brightness).shifts
    IN  IF shifts > 0
        THEN RGB16(Shl16(in_color.r, shifts), Shl16(in_color.g, shifts),
                   Shl16(in_color.b, shifts))
        ELSE in_color

\* v5 = v5 | (v5 - 1) when v5 > 1: the low order bits turned on.
five_bit_fill_skipped(v5) == v5

five_bit_fill(v5) == IF v5 > 1 THEN BitOr(v5, v5 - 1) ELSE v5

\* Steps 1 to 5 of five_bit_bitshift, for brightness > 0 and a color that is not black.
five_bit_bitshift_steps(in_color, brightness) ==
    LET s2 == five_bit_step2(brightness)
        s3 == five_bit_step3(in_color, brightness)
        shifted == five_bit_shifted(in_color, brightness)
        scaled == IF s2.brightness # U8Max
                  THEN RGB16(scale16by8(shifted.r, s2.brightness),
                             scale16by8(shifted.g, s2.brightness),
                             scale16by8(shifted.b, s2.brightness))
                  ELSE shifted
        v5 == five_bit_fill(s3.v5)
    IN  Apa102Pixel(map16_to_8(scaled.r), map16_to_8(scaled.g), map16_to_8(scaled.b), v5)

\* five_bit_bitshift without its early return for brightness == 0.
five_bit_bitshift_no_zero_return(in_color, brightness) ==
    IF in_color.r = 0 /\ in_color.g = 0 /\ in_color.b = 0 THEN BlackPixel(brightness)
    ELSE five_bit_bitshift_steps(in_color, brightness)

five_bit_bitshift(in_color, brightness) ==
    IF brightness = 0 THEN Apa102Pixel(0, 0, 0, 0)
    ELSE IF in_color.r = 0 /\ in_color.g = 0 /\ in_color.b = 0 THEN BlackPixel(brightness)
    ELSE five_bit_bitshift_steps(in_color, brightness)

\* Look up table for gamma16 correction at power of 2.8; index c is GAMMA_TABLE[c + 1].
GAMMA_TABLE ==
    <<
       0, 0, 0, 1, 1, 2, 4, 6, 8, 11, 14,
       18, 23, 29, 35, 41, 49, 57, 67, 77, 88, 99,
       112, 126, 141, 156, 173, 191, 210, 230, 251, 274, 297,
       322, 348, 375, 404, 433, 464, 497, 531, 566, 602, 640,
       680, 721, 763, 807, 853, 899, 948, 998, 1050, 1103, 1158,
       1215, 1273, 1333, 1394, 1458, 1523, 1590, 1658, 1729, 1801, 1875,
       1951, 2029, 2109, 2190, 2274, 2359, 2446, 2536, 2627, 2720, 2816,
       2913, 3012, 3114, 3217, 3323, 3431, 3541, 3653, 3767, 3883, 4001,
       4122, 4245, 4370, 4498, 4627, 4759, 4893, 5030, 5169, 5310, 5453,
       5599, 5747, 5898, 6051, 6206, 6364, 6525, 6688, 6853, 7021, 7191,
       7364, 7539, 7717, 7897, 8080, 8266, 8454, 8645, 8838, 9034, 9233,
       9434, 9638, 9845, 10055, 10267, 10482, 10699, 10920, 11143, 11369, 11598,
       11829, 12064, 12301, 12541, 12784, 13030, 13279, 13530, 13785, 14042, 14303,
       14566, 14832, 15102, 15374, 15649, 15928, 16209, 16493, 16781, 17071, 17365,
       17661, 17961, 18264, 18570, 18879, 19191, 19507, 19825, 20147, 20472, 20800,
       21131, 21466, 21804, 22145, 22489, 22837, 23188, 23542, 23899, 24260, 24625,
       24992, 25363, 25737, 26115, 26496, 26880, 27268, 27659, 28054, 28452, 28854,
       29259, 29667, 30079, 30495, 30914, 31337, 31763, 32192, 32626, 33062, 33503,
       33947, 34394, 34846, 35300, 35759, 36221, 36687, 37156, 37629, 38106, 38586,
       39071, 39558, 40050, 40545, 41045, 41547, 42054, 42565, 43079, 43597, 44119,
       44644, 45174, 45707, 46245, 46786, 47331, 47880, 48432, 48989, 49550, 50114,
       50683, 51255, 51832, 52412, 52996, 53585, 54177, 54773, 55374, 55978, 56587,
       57199, 57816, 58436, 59061, 59690, 60323, 60960, 61601, 62246, 62896, 63549,
       64207, 64869, 65535
    >>

\* One channel of the color correction: scaled unless the correction is u8::MAX.
correct_channel_skips_zero(c16, correction) ==
    IF correction # 0 THEN scale16by8(c16, correction) ELSE c16

correct_channel(c16, correction) ==
    IF correction # U8Max THEN scale16by8(c16, correction) ELSE c16

\* color_correction is <<>> for None and <<c>> for Some(c).
five_bit_hd_gamma_bitshift(colors, brightness, color_correction) ==
    IF brightness = 0 THEN Apa102Pixel(0, 0, 0, 0)
    ELSE LET rgb16 == RGB16(GAMMA_TABLE[colors.r + 1], GAMMA_TABLE[colors.g + 1],
                            GAMMA_TABLE[colors.b + 1])
             corrected ==
                 IF color_correction # <<>>
                 THEN RGB16(correct_channel(rgb16.r, color_correction[1].r),
                            correct_channel(rgb16.g, color_correction[1].g),
                            correct_channel(rgb16.b, color_correction[1].b))
                 ELSE rgb16
         IN  five_bit_bitshift(corrected, brightness)

\* pixel.rs: the two public constructors.
from_rgb8_with_brightness(rgb8, brightness, color_correction) ==
    five_bit_hd_gamma_bitshift(rgb8, brightness, color_correction)

from_rgb16_with_brightness(rgb16, brightness) == five_bit_bitshift(rgb16, brightness)

(***************************************************************************)
(* Inputs.                                                                 *)
(***************************************************************************)
Palette ==
    { Apa102Pixel(1, 2, 3, 31), Apa102Pixel(255, 0, 128, 0), Apa102Pixel(16, 32, 64, 5) }

SeqsUpTo(S, n) == UNION { [1..k -> S] : k \in 0..n }

Inputs == SeqsUpTo(Palette, MaxPixels)

\* One pixel of every u8 brightness.
PixelInputs ==
    { <<Apa102Pixel(c[1], c[2], c[3], br)>> :
        c \in {<<1, 2, 3>>}, br \in 0..U8Max }

\* Strips of one repeated pixel.
StripInputs == { [k \in 1..n |-> p] : n \in 0..MaxStrip, p \in {Apa102Pixel(1, 2, 3, 31)} }

Configs ==
    { <<w, l, inv, o>> : w \in FixedLengthWriters, l \in 0..MaxEndFrameLength,
                         inv \in BOOLEAN, o \in PixelOrder }
    \cup { <<"writer::Apa102", 0, inv, o>> : inv \in BOOLEAN, o \in PixelOrder }

\* No encoder call and no helper call is under test.
NoCall == [fn |-> "none"]

NoEncInput == [fn |-> "none", color |-> RGB8(0, 0, 0), brightness |-> 0, correction |-> <<>>]

(***************************************************************************)
(* new / new_with_options: the writer as constructed, no write started.    *)
(***************************************************************************)
InitWith(cfgs) ==
    /\ \E c \in cfgs :
        /\ writer = c[1]
        /\ end_frame_length = c[2]
        /\ invert_end_frame = c[3]
        /\ pixel_order = c[4]
    /\ pixels = <<>>
    /\ iterator = <<>>
    /\ num_end_frames = 0
    /\ i = 0
    /\ pc = "idle"
    /\ log = <<>>
    /\ result = "none"
    /\ calls = 0
    /\ encIn = NoEncInput
    /\ encOut = <<>>
    /\ call = NoCall

Init == InitWith(Configs)

(***************************************************************************)
(* write, one action per transport call.                                   *)
(***************************************************************************)
WriteFromKeepsCounter(S, max_calls) ==
    /\ pc \in {"idle", "done"}
    /\ calls < max_calls
    /\ \E input \in S :
        /\ pixels' = input
        /\ iterator' = input
    /\ calls' = calls + 1
    /\ pc' = "start"
    /\ log' = <<>>
    /\ result' = "none"
    /\ UNCHANGED <<config, i, num_end_frames, encIn, encOut, call>>

\* The caller starts write(iterator) on a writer that is not inside a write.
WriteFrom(S, max_calls) ==
    /\ pc \in {"idle", "done"}
    /\ calls < max_calls
    /\ \E input \in S :
        /\ pixels' = input
        /\ iterator' = input
    /\ calls' = calls + 1
    /\ pc' = "start"
    /\ log' = <<>>
    /\ result' = "none"
    /\ i' = 0
    /\ num_end_frames' = 0
    /\ UNCHANGED <<config, encIn, encOut, call>>

Write == WriteFrom(Inputs, MaxCalls)

\* self.spi.write(&[0x00, 0x00, 0x00, 0x00])?; writer.rs then takes iterator.len().
WriteStartFrame ==
    /\ pc = "start"
    /\ \E r \in TransportResults :
        /\ log' = SpiWrite(StartFrame, r)
        /\ pc' = TryPc(r, "pixels")
        /\ result' = TryResult(r)
        /\ num_end_frames' =
             IF r = "Ok" /\ writer = "writer::Apa102"
             THEN DivCeil(Len(iterator), 16) ELSE num_end_frames
    /\ UNCHANGED <<config, pixels, iterator, i, calls, encIn, encOut, call>>

\* One iteration of for item in iterator.
WritePixel ==
    /\ pc = "pixels"
    /\ iterator # <<>>
    /\ \E r \in TransportResults :
        /\ log' = SpiWrite(PixelFrame(pixel_order, Head(iterator)), r)
        /\ pc' = TryPc(r, "pixels")
        /\ result' = TryResult(r)
    /\ iterator' = Tail(iterator)
    /\ UNCHANGED <<config, pixels, num_end_frames, i, calls, encIn, encOut, call>>

\* writer.rs only: the extra start frame after the pixels.
WriteResetFrame ==
    /\ AfterPixels
    /\ writer = "writer::Apa102"
    /\ \E r \in TransportResults :
        /\ log' = SpiWrite(StartFrame, r)
        /\ pc' = TryPc(r, "end")
        /\ result' = TryResult(r)
    /\ UNCHANGED <<config, pixels, iterator, num_end_frames, i, calls, encIn, encOut, call>>

\* One iteration of the end-frame loop.
WriteEndFrameByte ==
    /\ InEndLoop
    /\ i < EndFrameCount
    /\ \E r \in TransportResults :
        /\ log' = SpiWrite(<<EndFrameByte(invert_end_frame)>>, r)
        /\ pc' = TryPc(r, "end")
        /\ result' = TryResult(r)
    /\ i' = i + 1
    /\ UNCHANGED <<config, pixels, iterator, num_end_frames, calls, encIn, encOut, call>>

\* The end-frame loop is over: Ok(()).
ReturnOk ==
    /\ InEndLoop
    /\ i >= EndFrameCount
    /\ pc' = "done"
    /\ result' = "Ok"
    /\ UNCHANGED <<config, pixels, iterator, num_end_frames, i, log, calls, encIn, encOut, call>>

WriteSteps ==
    \/ WriteStartFrame
    \/ WritePixel
    \/ WriteResetFrame
    \/ WriteEndFrameByte
    \/ ReturnOk

Next == Write \/ WriteSteps

Spec == Init /\ [][Next]_vars

(***************************************************************************)
(* The pixel encoders, applied to inputs drawn from bounded sets.          *)
(***************************************************************************)
Chan16R == {0, 1, 8, 256, 8192, 65535}

Chan16G == {0, 7, 240, 4096, 32768}

Chan16B == {0, 15, 3840, 16384}

Colors16 == { RGB16(r, g, b) : r \in Chan16R, g \in Chan16G, b \in Chan16B }

Colors8 ==
    { RGB8(r, g, b) : r \in {0, 16, 64, 255}, g \in {0, 16, 64, 127, 255},
                      b \in {0, 16, 43, 64, 255} }

Corrections == { <<>>, <<RGB8(255, 255, 255)>>, <<RGB8(255, 128, 0)>>, <<RGB8(200, 255, 17)>> }

HdBrightness == {0, 1, 8, 16, 31, 32, 64, 128, 254, 255}

EncInputs ==
    { [fn |-> "five_bit_bitshift", color |-> c, brightness |-> br, correction |-> <<>>] :
        c \in Colors16, br \in 0..U8Max }
    \cup
    { [fn |-> "five_bit_hd_gamma_bitshift", color |-> c, brightness |-> br, correction |-> cc] :
        c \in Colors8, br \in HdBrightness, cc \in Corrections }

InitEnc ==
    /\ writer = "Apa102"
    /\ end_frame_length = 4
    /\ invert_end_frame = TRUE
    /\ pixel_order = "BGR"
    /\ pixels = <<>>
    /\ iterator = <<>>
    /\ num_end_frames = 0
    /\ i = 0
    /\ pc = "idle"
    /\ log = <<>>
    /\ result = "none"
    /\ calls = 0
    /\ encIn \in EncInputs
    /\ encOut = <<>>
    /\ call = NoCall

\* Apa102Pixel::from_rgb16_with_brightness(rgb16, brightness)
EncodeRgb16 ==
    /\ encIn.fn = "five_bit_bitshift"
    /\ encOut = <<>>
    /\ encOut' = <<from_rgb16_with_brightness(encIn.color, encIn.brightness)>>
    /\ UNCHANGED <<config, pixels, iterator, num_end_frames, i, pc, log, result, calls, encIn, call>>

\* Apa102Pixel::from_rgb8_with_brightness(rgb8, brightness, color_correction)
EncodeRgb8 ==
    /\ encIn.fn = "five_bit_hd_gamma_bitshift"
    /\ encOut = <<>>
    /\ encOut' = <<from_rgb8_with_brightness(encIn.color, encIn.brightness, encIn.correction)>>
    /\ UNCHANGED <<config, pixels, iterator, num_end_frames, i, pc, log, result, calls, encIn, call>>

NextEnc == EncodeRgb16 \/ EncodeRgb8

SpecEnc == InitEnc /\ [][NextEnc]_vars

(***************************************************************************)
(* The writers on one pixel of every brightness, and on long strips.       *)
(***************************************************************************)
WritePixelInput == WriteFrom(PixelInputs, 1)

NextPixel == WritePixelInput \/ WriteSteps

InitPixel == InitWith({ c \in Configs : c[2] \in {0, 1} /\ c[3] })

SpecPixel == InitPixel /\ [][NextPixel]_vars

WriteStrip == WriteFrom(StripInputs, 1)

InitStrip == InitWith({ c \in Configs : c[1] = "writer::Apa102" })

NextStrip == WriteStrip \/ WriteSteps

SpecStrip == InitStrip /\ [][NextStrip]_vars

(***************************************************************************)
(* The bitshifters of bitshift.rs, one action per loop iteration, and      *)
(* scale16by8 of math.rs.                                                  *)
(***************************************************************************)
Pow2Srcs == {0, 1, 2, 4, 8, 16, 32, 64, 128}

OtherSrcs == {3, 6, 255}

Dsts16 == {0, 1, 2, 4, 10, 256, 3620, 14482, 16384, 25166, 32768, 57934, 65535}

Bitshifter8Calls ==
    { [fn |-> "brightness_bitshifter8", src0 |-> s, dst0 |-> d, max_shifts |-> ms,
       steps |-> 1, src |-> s, dst |-> d, shifts |-> 0, overflow_mask |-> 128,
       pc |-> "entry"] :
        s \in Pow2Srcs \cup OtherSrcs, d \in 0..U8Max, ms \in 0..7 }

Bitshifter16Calls ==
    { [fn |-> "brightness_bitshifter16", src0 |-> s, dst0 |-> d, max_shifts |-> ms,
       steps |-> st, src |-> s, dst |-> d, shifts |-> 0, overflow_mask |-> 32768,
       pc |-> "entry"] :
        s \in 0..U8Max, d \in Dsts16, ms \in {0, 1, 2, 4, 8}, st \in {1, 2} }

\* Apa102::new, no write started, no encoder call under test.
NewWriter ==
    /\ writer = "Apa102"
    /\ end_frame_length = 4
    /\ invert_end_frame = TRUE
    /\ pixel_order = "BGR"
    /\ pixels = <<>>
    /\ iterator = <<>>
    /\ num_end_frames = 0
    /\ i = 0
    /\ pc = "idle"
    /\ log = <<>>
    /\ result = "none"
    /\ calls = 0
    /\ encIn = NoEncInput
    /\ encOut = <<>>

InitShift ==
    /\ NewWriter
    /\ call \in Bitshifter8Calls \cup Bitshifter16Calls

\* brightness_bitshifter8: the check for a zero argument, then shifts = 0.
Bitshifter8Enter ==
    /\ call.fn = "brightness_bitshifter8"
    /\ call.pc = "entry"
    /\ call' = [call EXCEPT !.pc = IF call.dst = 0 \/ call.src = 0
                                   THEN "returned" ELSE "loop"]
    /\ UNCHANGED <<config, pixels, iterator, num_end_frames, i, pc, log, result, calls,
                   encIn, encOut>>

\* One iteration of its while loop.
Bitshifter8Iterate ==
    /\ call.fn = "brightness_bitshifter8"
    /\ call.pc = "loop"
    /\ bitshifter8_continues(call.src, call.dst, call.shifts, call.max_shifts)
    /\ call' = [call EXCEPT !.src = call.src \div 2,
                            !.dst = Shl8(call.dst, 1),
                            !.shifts = call.shifts + 1]
    /\ UNCHANGED <<config, pixels, iterator, num_end_frames, i, pc, log, result, calls,
                   encIn, encOut>>

\* The loop ends (its condition fails, or the break): shifts is returned.
Bitshifter8Return ==
    /\ call.fn = "brightness_bitshifter8"
    /\ call.pc = "loop"
    /\ ~bitshifter8_continues(call.src, call.dst, call.shifts, call.max_shifts)
    /\ call' = [call EXCEPT !.pc = "returned"]
    /\ UNCHANGED <<config, pixels, iterator, num_end_frames, i, pc, log, result, calls,
                   encIn, encOut>>

\* brightness_bitshifter16: the check for a zero argument, then the masks and shifts = 0.
Bitshifter16Enter ==
    /\ call.fn = "brightness_bitshifter16"
    /\ call.pc = "entry"
    /\ call' = IF call.dst = 0 \/ call.src = 0
               THEN [call EXCEPT !.pc = "returned"]
               ELSE [call EXCEPT !.pc = "loop",
                                 !.overflow_mask = overflow_mask_loop(32768, 1, call.steps)]
    /\ UNCHANGED <<config, pixels, iterator, num_end_frames, i, pc, log, result, calls,
                   encIn, encOut>>

\* One iteration of its while loop.
Bitshifter16Iterate ==
    /\ call.fn = "brightness_bitshifter16"
    /\ call.pc = "loop"
    /\ bitshifter16_continues(call.src, call.dst, call.shifts, call.max_shifts,
                              call.overflow_mask)
    /\ call' = [call EXCEPT !.src = call.src \div 2,
                            !.dst = Shl16(call.dst, call.steps),
                            !.shifts = call.shifts + 1]
    /\ UNCHANGED <<config, pixels, iterator, num_end_frames, i, pc, log, result, calls,
                   encIn, encOut>>

\* The loop ends (its condition fails, or a break): shifts is returned.
Bitshifter16Return ==
    /\ call.fn = "brightness_bitshifter16"
    /\ call.pc = "loop"
    /\ ~bitshifter16_continues(call.src, call.dst, call.shifts, call.max_shifts,
                               call.overflow_mask)
    /\ call' = [call EXCEPT !.pc = "returned"]
    /\ UNCHANGED <<config, pixels, iterator, num_end_frames, i, pc, log, result, calls,
                   encIn, encOut>>

NextShift ==
    \/ Bitshifter8Enter
    \/ Bitshifter8Iterate
    \/ Bitshifter8Return
    \/ Bitshifter16Enter
    \/ Bitshifter16Iterate
    \/ Bitshifter16Return

SpecShift == InitShift /\ [][NextShift]_vars

Values16 ==
    { 65535 \div Pow2(k) : k \in 0..15 }
    \cup {0, 128, 255, 256, 257, 1000, 26214, 32768, 49151, 65280, 65534}

Scale16by8Calls ==
    { [fn |-> "scale16by8", value |-> v, scale |-> s, product |-> 0, out |-> 0,
       pc |-> "entry"] : v \in Values16, s \in 0..U8Max }

InitMath ==
    /\ NewWriter
    /\ call \in Scale16by8Calls

\* scale16by8(i, scale) returning for scale == 0.
Scale16by8Zero ==
    /\ call.fn = "scale16by8"
    /\ call.pc = "entry"
    /\ call.scale = 0
    /\ call' = [call EXCEPT !.out = scale16by8(call.value, call.scale), !.pc = "returned"]
    /\ UNCHANGED <<config, pixels, iterator, num_end_frames, i, pc, log, result, calls,
                   encIn, encOut>>

\* scale16by8(i, scale) for any other scale: the u32 product, shifted and cast.
Scale16by8Scaled ==
    /\ call.fn = "scale16by8"
    /\ call.pc = "entry"
    /\ call.scale # 0
    /\ call' = [call EXCEPT !.product = scale16by8_product(call.value, call.scale),
                            !.out = scale16by8(call.value, call.scale),
                            !.pc = "returned"]
    /\ UNCHANGED <<config, pixels, iterator, num_end_frames, i, pc, log, result, calls,
                   encIn, encOut>>

NextMath == Scale16by8Zero \/ Scale16by8Scaled

SpecMath == InitMath /\ [][NextMath]_vars


(***************************************************************************)
(* Properties of write.                                                    *)
(***************************************************************************)
\* The number of items the for loop has taken from the iterator.
Consumed == Len(pixels) - Len(iterator)

\* write has returned Ok(()).
Succeeded == pc = "done" /\ result = "Ok"

IsPixelFrame(bytes) == Len(bytes) = 4 /\ bytes[1] >= 224

\* ceil(n / 16): the least k with 16 * k >= n.
Ceil16(n) == CHOOSE k \in 0..n : 16 * k >= n /\ (k = 0 \/ 16 * (k - 1) < n)

RECURSIVE SumLens(_)
SumLens(s) == IF s = <<>> THEN 0 ELSE Len(Head(s).bytes) + SumLens(Tail(s))

\* The bytes handed to the transport in the current write.
TotalBytes == SumLens(log)

\* The channels in the order each PixelOrder name spells.
OrderSpelling ==
    [RGB |-> <<"red", "green", "blue">>, RBG |-> <<"red", "blue", "green">>,
     GRB |-> <<"green", "red", "blue">>, GBR |-> <<"green", "blue", "red">>,
     BRG |-> <<"blue", "red", "green">>, BGR |-> <<"blue", "green", "red">>]

\* C1: the transport calls of a write are in wire order: the start frame is the
\* first call, call k + 1 carries the frame of the k-th pixel of the iterator (the
\* loop takes the items one by one, front to back), whatever follows the pixel
\* frames is written only once the iterator is empty and is no pixel frame, and a
\* write that returns Ok has consumed every pixel and ends with the end-frame bytes.
C1_WireOrder ==
    /\ Consumed \in 0..Len(pixels)
    /\ iterator = SubSeq(pixels, Consumed + 1, Len(pixels))
    /\ log # <<>> => log[1].bytes = StartFrame
    /\ Consumed > 0 => Len(log) >= Consumed + 1
    /\ \A k \in 1..Len(log) :
        /\ k \in 2..(Consumed + 1) => log[k].bytes = PixelFrame(pixel_order, pixels[k - 1])
        /\ k > Consumed + 1 => iterator = <<>> /\ ~IsPixelFrame(log[k].bytes)
    /\ Succeeded =>
        /\ iterator = <<>>
        /\ Len(log) >= 1 + Len(pixels) + EndFrameCount
        /\ \A k \in (Len(log) - EndFrameCount + 1)..Len(log) : Len(log[k].bytes) = 1

C1_Witness ==
    /\ Succeeded
    /\ Len(pixels) = 2
    /\ pixels[1] # pixels[2]
    /\ Len(log) = 5
    /\ log[2].bytes = PixelFrame(pixel_order, pixels[1])
    /\ log[3].bytes = PixelFrame(pixel_order, pixels[2])
    /\ Len(log[5].bytes) = 1

\* C2: the frame of a pixel whose brightness is in 0..31 is one call of four bytes:
\* 0b11100000 | brightness (224 + brightness), then the three channels in the
\* order the PixelOrder name spells, each once and unmodified.
C2_PixelFrameBytes ==
    \A k \in 2..Len(log) :
        (k <= Consumed + 1 /\ pixels[k - 1].brightness <= 31) =>
            LET p == pixels[k - 1]
                sp == OrderSpelling[pixel_order]
            IN  log[k].bytes = <<224 + p.brightness, p[sp[1]], p[sp[2]], p[sp[3]]>>

C2_Witness ==
    /\ Succeeded
    /\ pixel_order = "GRB"
    /\ pixels = <<Apa102Pixel(1, 2, 3, 17)>>
    /\ log[2].bytes = <<241, 2, 1, 3>>

\* C3: a failed transport write is the last transport write of its call, write has
\* returned by then, and it returned that error; write returns Ok only if every
\* transport write succeeded; an error returned is the error of the last write.
C3_ErrorAborts ==
    /\ \A k \in 1..Len(log) :
        log[k].res # "Ok" => k = Len(log) /\ pc = "done" /\ result = log[k].res
    /\ result = "Ok" => \A k \in 1..Len(log) : log[k].res = "Ok"
    /\ result \in TransportErrors => log # <<>> /\ log[Len(log)].res = result

C3_Witness ==
    /\ pc = "done"
    /\ result = "ErrB"
    /\ Len(pixels) = 2
    /\ Len(log) = 2
    /\ log[1].res = "Ok"
    /\ log[2].res = "ErrB"
    /\ Len(iterator) = 1

\* C4 as stated: with a fixed end-frame length, a successful write ends with
\* end_frame_length bytes after the pixel frames, each 0x00 when invert_end_frame
\* is false and 0xFF when it is true.
C4_Original ==
    (writer \in FixedLengthWriters /\ Succeeded) =>
        /\ TotalBytes = 4 + 4 * Len(pixels) + end_frame_length
        /\ \A k \in (Len(pixels) + 2)..Len(log) :
            log[k].bytes = <<IF invert_end_frame THEN 255 ELSE 0>>

\* C4, amended: with a fixed end-frame length, a successful write ends with
\* end_frame_length bytes after the pixel frames, whatever the number of pixels,
\* each 0x00 when invert_end_frame is true and 0xFF when it is false.
C4_FixedEndFrame ==
    (writer \in FixedLengthWriters /\ Succeeded) =>
        /\ TotalBytes = 4 + 4 * Len(pixels) + end_frame_length
        /\ \A k \in (Len(pixels) + 2)..Len(log) :
            log[k].bytes = <<IF invert_end_frame THEN 0 ELSE 255>>

C4_Witness ==
    /\ Succeeded
    /\ writer \in FixedLengthWriters
    /\ end_frame_length = 2
    /\ ~invert_end_frame
    /\ Len(pixels) = 2
    /\ log[4].bytes = <<255>>
    /\ log[5].bytes = <<255>>

\* C5 as stated: the writer of writer.rs ends a successful write of N pixels with
\* ceil(N / 16) end-frame bytes (after its reset frame), each 0x00.
C5_Original ==
    (writer = "writer::Apa102" /\ Succeeded) =>
        /\ Len(log) = Len(pixels) + 2 + Ceil16(Len(pixels))
        /\ \A k \in (Len(pixels) + 3)..Len(log) : log[k].bytes = <<0>>

\* C5, amended: the writer of writer.rs ends a successful write of N pixels with
\* ceil(N / 16) end-frame bytes (after its reset frame), each 0x00 when
\* invert_end_frame is true and 0xFF when it is false.
C5_LengthDerivedEndFrame ==
    (writer = "writer::Apa102" /\ Succeeded) =>
        /\ Len(log) = Len(pixels) + 2 + Ceil16(Len(pixels))
        /\ \A k \in (Len(pixels) + 3)..Len(log) :
            log[k].bytes = <<IF invert_end_frame THEN 0 ELSE 255>>

C5_Witness ==
    /\ Succeeded
    /\ writer = "writer::Apa102"
    /\ Len(pixels) = 17
    /\ ~invert_end_frame
    /\ Len(log) = 21
    /\ log[20].bytes = <<255>>
    /\ log[21].bytes = <<255>>

\* C6 as stated: a successful write of N pixels by the writer of writer.rs hands the
\* transport 4 + 4 * N + ceil(N / 16) bytes.
C6_Original ==
    (writer = "writer::Apa102" /\ Succeeded) =>
        TotalBytes = 4 + 4 * Len(pixels) + Ceil16(Len(pixels))

\* C6, amended: a successful write of N pixels by the writer of writer.rs hands the
\* transport 4 + 4 * N + 4 + ceil(N / 16) bytes (start frame, N pixel frames, reset
\* frame, end frame): 78 bytes for 17 pixels.
C6_TotalBytes ==
    (writer = "writer::Apa102" /\ Succeeded) =>
        /\ TotalBytes = 4 + 4 * Len(pixels) + 4 + Ceil16(Len(pixels))
        /\ Len(pixels) = 17 => TotalBytes = 78

C6_Witness ==
    /\ Succeeded
    /\ writer = "writer::Apa102"
    /\ Len(pixels) = 17
    /\ TotalBytes = 78

\* C7 as stated: a successful write of N pixels with a fixed end-frame length makes
\* N + 2 transport calls: the start frame, N pixel frames, one end frame.
C7_Original ==
    (writer \in FixedLengthWriters /\ Succeeded) => Len(log) = Len(pixels) + 2

\* C7, amended: a successful write of N pixels makes one transport call carrying the
\* whole start frame, one call per pixel frame, one call for the reset frame of
\* writer.rs, and one call per end-frame byte: N + 1 + end_frame_length calls with a
\* fixed end-frame length, N + 2 + ceil(N / 16) calls for writer.rs.
C7_CallsPerSegment ==
    Succeeded =>
        LET N == Len(pixels)
            head == IF writer = "writer::Apa102" THEN N + 2 ELSE N + 1
        IN  /\ Len(log) =
                 head + (IF writer = "writer::Apa102" THEN Ceil16(N) ELSE end_frame_length)
            /\ \A k \in 1..Len(log) :
                 Len(log[k].bytes) = IF k <= head THEN 4 ELSE 1

C7_Witness ==
    /\ Succeeded
    /\ writer \in FixedLengthWriters
    /\ end_frame_length = 2
    /\ Len(pixels) = 1
    /\ Len(log) = 4

\* C8 as stated: the frame of a pixel whose brightness field is above 31 starts with
\* the byte 0xFF (brightness 31), and its three channel bytes are the pixel's.
C8_Original ==
    \A k \in 2..Len(log) :
        (k <= Consumed + 1 /\ pixels[k - 1].brightness > 31) =>
            LET p == pixels[k - 1]
                sp == OrderSpelling[pixel_order]
            IN  log[k].bytes = <<255, p[sp[1]], p[sp[2]], p[sp[3]]>>

(***************************************************************************)
(* Properties of the pixel encoders.                                       *)
(***************************************************************************)
Encoded == encOut # <<>>

\* C9: with brightness 0 both from_rgb16_with_brightness and
\* from_rgb8_with_brightness return the pixel red 0, green 0, blue 0, brightness 0,
\* whatever the color and the color correction.
C9_ZeroBrightness ==
    (Encoded /\ encIn.brightness = 0) => encOut[1] = Apa102Pixel(0, 0, 0, 0)

C9_Witness ==
    /\ Encoded
    /\ encIn.brightness = 0
    /\ encIn.fn = "five_bit_bitshift"
    /\ encIn.color = RGB16(65535, 32768, 16384)
    /\ encOut[1].brightness = 0

\* C10: for the black 16-bit color and a brightness b in 1..255, five_bit_bitshift
\* returns zero channels and brightness min(b, 31).
C10_BlackColor ==
    ( /\ Encoded
      /\ encIn.fn = "five_bit_bitshift"
      /\ encIn.color = RGB16(0, 0, 0)
      /\ encIn.brightness >= 1 ) =>
        /\ encOut[1].red = 0 /\ encOut[1].green = 0 /\ encOut[1].blue = 0
        /\ encOut[1].brightness = IF encIn.brightness < 31 THEN encIn.brightness ELSE 31

C10_Witness ==
    /\ Encoded
    /\ encIn.fn = "five_bit_bitshift"
    /\ encIn.color = RGB16(0, 0, 0)
    /\ encIn.brightness = 200
    /\ encOut[1] = Apa102Pixel(0, 0, 0, 31)

NonBlack(c) == ~(c.r = 0 /\ c.g = 0 /\ c.b = 0)

\* C11: the brightness of the pixel five_bit_bitshift returns is at most 31, and
\* for a brightness above 0 and a color that is not black it is one of 1, 3, 7,
\* 15, 31 (2^k - 1 with 1 <= k <= 5), never 0.
C11_BrightnessFilled ==
    (Encoded /\ encIn.fn = "five_bit_bitshift") =>
        /\ encOut[1].brightness \in 0..31
        /\ (encIn.brightness > 0 /\ NonBlack(encIn.color)) =>
               encOut[1].brightness \in {1, 3, 7, 15, 31}

C11_Witness ==
    /\ Encoded
    /\ encIn.fn = "five_bit_bitshift"
    /\ encIn.color = RGB16(256, 240, 15)
    /\ encIn.brightness = 255
    /\ encOut[1].brightness = 3

\* C12: five_bit_hd_gamma_bitshift is five_bit_bitshift of the color whose channels
\* are the gamma table entries, each scaled by scale16by8 with its correction
\* channel when a correction is given (the channel 255 included: skipping it
\* changes nothing), so the correction (255, 255, 255) gives the pixel no
\* correction gives.
C12_GammaRefinement ==
    (Encoded /\ encIn.fn = "five_bit_hd_gamma_bitshift") =>
        LET c == encIn.color
            cc == encIn.correction
            g == RGB16(GAMMA_TABLE[c.r + 1], GAMMA_TABLE[c.g + 1], GAMMA_TABLE[c.b + 1])
            scaled == IF cc = <<>> THEN g
                      ELSE RGB16(scale16by8(g.r, cc[1].r), scale16by8(g.g, cc[1].g),
                                 scale16by8(g.b, cc[1].b))
        IN  /\ encOut[1] = five_bit_bitshift(scaled, encIn.brightness)
            /\ cc = <<RGB8(255, 255, 255)>> =>
                   encOut[1] = five_bit_hd_gamma_bitshift(c, encIn.brightness, <<>>)

C12_Witness ==
    /\ Encoded
    /\ encIn.fn = "five_bit_hd_gamma_bitshift"
    /\ encIn.color = RGB8(255, 127, 43)
    /\ encIn.brightness = 255
    /\ encIn.correction = <<RGB8(255, 255, 255)>>
    /\ encOut[1] = Apa102Pixel(255, 42, 3, 31)

\* C13: in five_bit_bitshift, for a color that is not black and a brightness above
\* 0, after the 8-bit and the 16-bit bitshift and before the scaling, every channel
\* c has v5_after * brightness_after * c_after = 16 * brightness_in * c_in, and the
\* left shift lost no bit: c_after = c_in * 2^shifts < 2^16.
C13_PowerConserved ==
    ( /\ Encoded
      /\ encIn.fn = "five_bit_bitshift"
      /\ encIn.brightness > 0
      /\ NonBlack(encIn.color) ) =>
        LET s2 == five_bit_step2(encIn.brightness)
            s3 == five_bit_step3(encIn.color, encIn.brightness)
            after == five_bit_shifted(encIn.color, encIn.brightness)
        IN  \A ch \in {"r", "g", "b"} :
                /\ s3.v5 * s2.brightness * after[ch] = 16 * encIn.brightness * encIn.color[ch]
                /\ after[ch] = encIn.color[ch] * Pow2(s3.shifts)
                /\ after[ch] < 65536

C13_Witness ==
    /\ Encoded
    /\ encIn.fn = "five_bit_bitshift"
    /\ encIn.color = RGB16(256, 240, 15)
    /\ encIn.brightness = 64
    /\ five_bit_step2(64).shifts = 1
    /\ five_bit_step3(encIn.color, 64).shifts = 3
    /\ five_bit_shifted(encIn.color, 64) = RGB16(2048, 1920, 120)

\* C17 as stated: in five_bit_bitshift the 8-bit bitshift of steps 1 and 2 leaves the
\* accumulator v5 at 16 or above and the brightness at the input brightness or below.
C17_Original ==
    ( /\ Encoded
      /\ encIn.fn = "five_bit_bitshift"
      /\ encIn.brightness > 0
      /\ NonBlack(encIn.color) ) =>
        LET s2 == five_bit_step2(encIn.brightness)
        IN  s2.v5 >= 16 /\ s2.brightness <= encIn.brightness

\* C17, amended: the 8-bit bitshifter is run with the accumulator v5 (16) as the
\* source and the input brightness as the destination, at most 4 shifts: after it
\* v5 is 16 / 2^shifts (at most 16, at least 1) and the brightness is the input
\* brightness * 2^shifts (at least the input, at most 255).
C17_AccumulatorIsSource ==
    ( /\ Encoded
      /\ encIn.fn = "five_bit_bitshift"
      /\ encIn.brightness > 0
      /\ NonBlack(encIn.color) ) =>
        LET s2 == five_bit_step2(encIn.brightness)
        IN  /\ s2.shifts \in 0..4
            /\ s2.v5 * Pow2(s2.shifts) = 16
            /\ s2.brightness = encIn.brightness * Pow2(s2.shifts)
            /\ s2.v5 \in 1..16
            /\ s2.brightness \in encIn.brightness..255

C17_Witness ==
    /\ Encoded
    /\ encIn.fn = "five_bit_bitshift"
    /\ encIn.color = RGB16(256, 240, 15)
    /\ encIn.brightness = 10
    /\ five_bit_step2(10) = [v5 |-> 1, brightness |-> 160, shifts |-> 4]

(***************************************************************************)
(* Properties of the bitshifters (bitshift.rs), under SpecShift.           *)
(***************************************************************************)
Returned == call.pc = "returned"

ZeroOnEntry == call.src0 = 0 \/ call.dst0 = 0

\* C14: brightness_bitshifter8 with a power-of-two src and max_shifts <= 7 keeps
\* src * dst the same on entry, after every loop iteration and on return; dst is
\* the entry value shifted left without losing a bit and src never reaches 0
\* unless it was 0; with src == 0 or dst == 0 on entry it returns 0 and leaves
\* both values unchanged.
C14_ProductPreserved8 ==
    (call.fn = "brightness_bitshifter8" /\ call.src0 \in Pow2Srcs) =>
        /\ call.src * call.dst = call.src0 * call.dst0
        /\ call.dst = call.dst0 * Pow2(call.shifts)
        /\ call.dst <= U8Max
        /\ call.shifts <= call.max_shifts
        /\ (call.src0 # 0 => call.src >= 1)
        /\ (Returned /\ ZeroOnEntry) =>
               /\ call.shifts = 0
               /\ call.src = call.src0
               /\ call.dst = call.dst0

C14_Witness ==
    /\ call.fn = "brightness_bitshifter8"
    /\ Returned
    /\ call.src0 = 16
    /\ call.dst0 = 3
    /\ call.shifts = 4
    /\ call.src = 1
    /\ call.dst = 48

\* C15: brightness_bitshifter16 keeps src * dst the same on entry, after every
\* loop iteration and on return, for every src in 0..255, every 16-bit dst,
\* every max_shifts and steps in {1, 2}.
C15_Original ==
    call.fn = "brightness_bitshifter16" =>
        call.src * call.dst = call.src0 * call.dst0

\* C16 as stated: brightness_bitshifter16 returns s in 0..max_shifts with
\* src_before == src_after * 2^s and dst_after == dst_before * 2^(s*steps) < 2^16;
\* with a zero on entry it returns 0 and changes nothing; and on every return
\* s == max_shifts, or src_after is odd, or one of the top `steps` bits of
\* dst_after is set.
C16_Original ==
    (call.fn = "brightness_bitshifter16" /\ Returned) =>
        \/ call.shifts = call.max_shifts
        \/ call.src % 2 = 1
        \/ call.dst \div Pow2(16 - call.steps) > 0

\* C16 (amended): as C16, the last clause only for calls that had no zero on entry.
C16_NoOverflowNoUnderflow ==
    call.fn = "brightness_bitshifter16" =>
        /\ call.shifts \in 0..call.max_shifts
        /\ call.src0 = call.src * Pow2(call.shifts)
        /\ call.dst = call.dst0 * Pow2(call.shifts * call.steps)
        /\ call.dst <= U16Max
        /\ (Returned /\ ZeroOnEntry) =>
               /\ call.shifts = 0
               /\ call.src = call.src0
               /\ call.dst = call.dst0
        /\ (Returned /\ ~ZeroOnEntry) =>
               \/ call.shifts = call.max_shifts
               \/ call.src % 2 = 1
               \/ call.dst \div Pow2(16 - call.steps) > 0

C16_Witness ==
    /\ call.fn = "brightness_bitshifter16"
    /\ Returned
    /\ call.steps = 2
    /\ call.src0 = 8
    /\ call.dst0 = 256
    /\ call.max_shifts = 4
    /\ call.shifts = 3
    /\ call.src = 1
    /\ call.dst = 16384

(***************************************************************************)
(* Properties of scale16by8 (math.rs), under SpecMath.                     *)
(***************************************************************************)
\* C18 as stated: for every 16-bit value and every 8-bit scale, scale 0
\* included, scale16by8(value, scale) is (value * (scale + 1)) >> 8.
C18_Original ==
    (call.fn = "scale16by8" /\ Returned) =>
        call.out = (call.value * (call.scale + 1)) \div 256

\* C18 (amended): for every scale from 1 to 255 scale16by8(value, scale) is
\* (value * (scale + 1)) >> 8, the product staying below 2^32; for scale 0 it
\* is 0; the result always fits in 16 bits and is at most value.
C18_ScaledValue ==
    (call.fn = "scale16by8" /\ Returned) =>
        /\ call.scale >= 1 =>
               /\ call.product = call.value * (call.scale + 1)
               /\ call.product \div 65536 < 65536
               /\ call.out = call.product \div 256
        /\ call.scale = 0 => call.out = 0
        /\ call.out <= U16Max
        /\ call.out <= call.value

C18_Witness ==
    /\ call.fn = "scale16by8"
    /\ Returned
    /\ call.value = 65535
    /\ call.scale = 128
    /\ call.product = 8454015
    /\ call.out = 33023

\* C19: scale16by8(x, 0) is 0 for every 16-bit x; scale16by8(0xFFFF, 0xFF) is
\* 0xFFFF; and for i in 0..15, j in 0..7 with i + j <= 7,
\* scale16by8(0xFFFF >> i, 0xFF >> j) is 0xFFFF >> (i + j).
C19_TestedIdentities ==
    (call.fn = "scale16by8" /\ Returned) =>
        /\ call.scale = 0 => call.out = 0
        /\ (call.value = 65535 /\ call.scale = 255) => call.out = 65535
        /\ \A a \in 0..15, b \in 0..7 :
               ( /\ a + b <= 7
                 /\ call.value = 65535 \div Pow2(a)
                 /\ call.scale = 255 \div Pow2(b) ) =>
                   call.out = 65535 \div Pow2(a + b)

C19_Witness ==
    /\ call.fn = "scale16by8"
    /\ Returned
    /\ call.value = 65535 \div 8
    /\ call.scale = 255 \div 16
    /\ call.out = 511

(***************************************************************************)
(* write keeps nothing between calls (lib.rs, asynch.rs, writer.rs).       *)
(***************************************************************************)
\* The bytes of each transport call of the current write, in order.
LogBytes == [k \in 1..Len(log) |-> log[k].bytes]

\* What a first write of px emits on a writer just constructed with this
\* configuration: a function of the configuration and the pixels alone.
FreshWriteBytes(w, len, inv, order, px) ==
    LET n == IF w = "writer::Apa102" THEN Ceil16(Len(px)) ELSE len
    IN  <<StartFrame>>
        \o [k \in 1..Len(px) |-> PixelFrame(order, px[k])]
        \o (IF w = "writer::Apa102" THEN <<StartFrame>> ELSE <<>>)
        \o [k \in 1..n |-> <<EndFrameByte(inv)>>]

\* C20: write never changes end_frame_length, invert_end_frame or pixel_order,
\* and a write that succeeds, whether it is the first on the writer or follows
\* earlier writes (completed or aborted by a transport error at any point),
\* begins with the start frame and emits exactly what a first write of the same
\* pixels emits on a fresh writer of the same configuration.
C20_WriteIsStateless ==
    /\ [][config' = config]_vars
    /\ [](Succeeded =>
            /\ LogBytes[1] = <<0, 0, 0, 0>>
            /\ LogBytes = FreshWriteBytes(writer, end_frame_length, invert_end_frame,
                                          pixel_order, pixels))

C20_Witness ==
    /\ calls = 2
    /\ Succeeded
    /\ Len(pixels) = 2
    /\ end_frame_length = 2
    /\ Len(log) = 5

====
